---- MODULE Spec2Model ----
(***************************************************************************)
(* The Socratic Arena: the debate loop (backend/services/ai/debate.js),    *)
(* the persona responders (backend/services/ai/agents.js) and the session  *)
(* glue of the upload controller (documentCtrl.js).                        *)
(*                                                                         *)
(* JavaScript strings are sequences of tokens; " " is the whitespace       *)
(* token, so String.prototype.trim is a real operation on them.  One       *)
(* action is one run-to-completion slice of the event loop: everything a   *)
(* handler or a resumed async function does up to its next await.          *)
(***************************************************************************)
EXTENDS Integers, Sequences, FiniteSets, TLC

\* ------------------------------------------------------------------ bounds
MaxRounds == 2
MaxRuns == 2
MaxFormRounds == 1
MaxQueued == 2
MaxTurns == 2

\* --------------------------------------------------------------- constants
DefaultRounds == 3

\* ----------------------------------------------------------------- strings
RECURSIVE TrimStart(_)
TrimStart(s) ==
  IF s # <<>> /\ Head(s) = " " THEN TrimStart(Tail(s)) ELSE s

RECURSIVE TrimEnd(_)
TrimEnd(s) ==
  IF s # <<>> /\ s[Len(s)] = " " THEN TrimEnd(SubSeq(s, 1, Len(s) - 1)) ELSE s

Trim(s) == TrimEnd(TrimStart(s))

Includes(s, tok) == \E i \in 1..Len(s) : s[i] = tok

Str(s) == [t |-> "str", v |-> s]
Undefined == [t |-> "undef", v |-> <<>>]
NotAString == [t |-> "num", v |-> <<>>]

\* `!x || typeof x !== 'string' || !x.trim()`
BlankOrInvalid(x) == x.t # "str" \/ x.v = <<>> \/ Trim(x.v) = <<>>

\* ---------------------------------------------------------------- outcomes
\* how an awaited call settles: a value, or an error with a message and an
\* HTTP-like status (0 when the error carries none)
Return(x) == [kind |-> "return", raw |-> x, message |-> <<>>, status |-> 0]
ThrowError(m, st) == [kind |-> "throw", raw |-> Undefined, message |-> m, status |-> st]
Throw(m) == ThrowError(m, 0)

InvalidActorMessage == <<"Invalid actor chain. Expected an object with respond() or invoke().">>
EmptyResponseMessage == <<"Actor returned an empty or invalid response.">>
InvalidTopicMessage == <<"A non-empty initialTopic string is required to run a debate.">>
StoppedEarlyPrefix == <<"Debate stopped early due to an error: ">>
NoPreviousTurns == <<"No previous turns yet.">>

\* ------------------------------------------------------------- invokeActor
\* actor shapes: an object with respond(), an object with only invoke(),
\* an object with neither, and null
ActorShapes == {"respond", "invoke", "neither", "null"}

ActorIsValid(actor) == actor \in {"respond", "invoke"}

\* which method of the actor invokeActor calls
ActorMethod(actor) == IF actor = "respond" THEN "respond" ELSE "invoke"

InvokeActorResultUnvalidated(outcome) ==
  IF outcome.kind = "throw" THEN outcome
  ELSE IF outcome.raw.t # "str" THEN Throw(EmptyResponseMessage)
  ELSE Return(Str(Trim(outcome.raw.v)))

\* what invokeActor makes of the outcome of the one call it awaited
InvokeActorResult(outcome) ==
  IF outcome.kind = "throw" THEN outcome
  ELSE IF BlankOrInvalid(outcome.raw) THEN Throw(EmptyResponseMessage)
  ELSE Return(Str(Trim(outcome.raw.v)))

\* --------------------------------------------------------------- runDebate
Turn(speaker, text) == [speaker |-> speaker, text |-> text]

RECURSIVE Serialize(_)
Serialize(transcript) ==
  IF transcript = <<>> THEN <<>>
  ELSE IF Len(transcript) = 1
       THEN <<transcript[1].speaker, ": ">> \o transcript[1].text
       ELSE <<transcript[1].speaker, ": ">> \o transcript[1].text \o <<"\n">>
              \o Serialize(Tail(transcript))

PriorContext(transcript) ==
  IF Len(transcript) > 0 THEN Serialize(transcript) ELSE NoPreviousTurns

\* totalRounds values: an integer, a non-integer number, or undefined
IntRounds(n) == [t |-> "int", n |-> n]
FracRounds == [t |-> "frac", n |-> 0]
NoRounds == [t |-> "undef", n |-> 0]

\* parameter default `totalRounds = 3`, then
\* `Number.isInteger(totalRounds) && totalRounds > 0 ? totalRounds : 3`
NormalizeRounds(totalRounds) ==
  LET withDefault == IF totalRounds.t = "undef" THEN IntRounds(DefaultRounds) ELSE totalRounds
  IN IF withDefault.t = "int" /\ withDefault.n > 0 THEN withDefault.n ELSE DefaultRounds

CriticInstruction(roundNumber, criticPrompt) ==
  IF roundNumber = 1
  THEN [round |-> roundNumber, frame |-> "Analyze this topic and open with a strong critique",
        label |-> "Topic:", body |-> criticPrompt]
  ELSE [round |-> roundNumber, frame |-> "Attack the Defender's previous argument",
        label |-> "Defender's last point:", body |-> criticPrompt]

DefenderInstructionWithoutClaim(roundNumber, criticText) ==
  [round |-> roundNumber, frame |-> "Defend the document against the Critic's latest argument",
   label |-> "Critic's claim:", body |-> <<>>]

DefenderInstruction(roundNumber, criticText) ==
  [round |-> roundNumber, frame |-> "Defend the document against the Critic's latest argument",
   label |-> "Critic's claim:", body |-> criticText]

\* the locals of one runDebate activation; `calls` and `results` log the
\* calls made on the actors and what came back
NotStarted ==
  [pc |-> "idle", rounds |-> 0, roundNumber |-> 0, criticPrompt |-> <<>>,
   criticText |-> <<>>, debateTranscript |-> <<>>, calls |-> <<>>, results |-> <<>>]

PushTurnFront(transcript, speaker, text) == <<Turn(speaker, text)>> \o transcript

PushTurn(transcript, speaker, text) == Append(transcript, Turn(speaker, text))

CatchSilently(d, message) == [d EXCEPT !.pc = "returned"]

CatchRejects(d, message) == [d EXCEPT !.pc = "rejected"]

CatchAndRetry(d, message) ==
  [d EXCEPT !.pc = "returned",
            !.debateTranscript = PushTurn(d.debateTranscript, "System", StoppedEarlyPrefix \o message),
            !.calls = IF Len(d.results) = Len(d.calls) /\ d.calls # <<>>
                      THEN Append(d.calls, d.calls[Len(d.calls)]) ELSE d.calls]

\* the catch block: one System turn, then return the transcript
Catch(d, message) ==
  [d EXCEPT !.pc = "returned",
            !.debateTranscript = PushTurn(d.debateTranscript, "System", StoppedEarlyPrefix \o message)]

\* invokeActor up to its await: validate the actor, then call it
BeginInvoke(d, actor, speaker, instruction, nextPc) ==
  IF ~ActorIsValid(actor) THEN Catch(d, InvalidActorMessage)
  ELSE [d EXCEPT !.pc = nextPc,
                 !.calls = Append(d.calls,
                    [actor |-> speaker, method |-> ActorMethod(actor), topic |-> instruction,
                     priorContext |-> PriorContext(d.debateTranscript)])]

RoundStartOffByOne(d, criticChain) ==
  IF d.roundNumber < d.rounds
  THEN BeginInvoke(d, criticChain, "Critic",
                   CriticInstruction(d.roundNumber, d.criticPrompt), "critic")
  ELSE [d EXCEPT !.pc = "returned"]

\* loop head: the for-condition, then the Critic's call
RoundStart(d, criticChain) ==
  IF d.roundNumber <= d.rounds
  THEN BeginInvoke(d, criticChain, "Critic",
                   CriticInstruction(d.roundNumber, d.criticPrompt), "critic")
  ELSE [d EXCEPT !.pc = "returned"]

EnterUnchecked(defenderChain, criticChain, initialTopic, totalRounds) ==
  RoundStart([NotStarted EXCEPT !.rounds = NormalizeRounds(totalRounds),
                                !.roundNumber = 1,
                                !.criticPrompt = Trim(initialTopic.v)],
             criticChain)

\* runDebate from its call to its first await
Enter(defenderChain, criticChain, initialTopic, totalRounds) ==
  IF BlankOrInvalid(initialTopic) THEN Catch(NotStarted, InvalidTopicMessage)
  ELSE RoundStart([NotStarted EXCEPT !.rounds = NormalizeRounds(totalRounds),
                                     !.roundNumber = 1,
                                     !.criticPrompt = Trim(initialTopic.v)],
                  criticChain)

CriticSettlesCallsFirst(d, defenderChain, outcome) ==
  LET res == InvokeActorResult(outcome)
      logged == [d EXCEPT !.results = Append(d.results, outcome)]
  IN IF res.kind = "throw" THEN Catch(logged, res.message)
     ELSE LET called == BeginInvoke(logged, defenderChain, "Defender",
                                    DefenderInstruction(d.roundNumber, res.raw.v), "defender")
          IN [called EXCEPT
                !.criticText = res.raw.v,
                !.debateTranscript = PushTurn(called.debateTranscript, "Critic", res.raw.v)]

\* the Critic's call settles: push its turn and call the Defender
CriticSettles(d, defenderChain, outcome) ==
  LET res == InvokeActorResult(outcome)
      logged == [d EXCEPT !.results = Append(d.results, outcome)]
  IN IF res.kind = "throw" THEN Catch(logged, res.message)
     ELSE LET pushed == [logged EXCEPT
                           !.criticText = res.raw.v,
                           !.debateTranscript = PushTurn(d.debateTranscript, "Critic", res.raw.v)]
          IN BeginInvoke(pushed, defenderChain, "Defender",
                         DefenderInstruction(d.roundNumber, res.raw.v), "defender")

\* the Defender's call settles: push its turn and go round again
DefenderSettles(d, criticChain, outcome) ==
  LET res == InvokeActorResult(outcome)
      logged == [d EXCEPT !.results = Append(d.results, outcome)]
  IN IF res.kind = "throw" THEN Catch(logged, res.message)
     ELSE RoundStart([logged EXCEPT
                        !.debateTranscript = PushTurn(d.debateTranscript, "Defender", res.raw.v),
                        !.criticPrompt = res.raw.v,
                        !.roundNumber = d.roundNumber + 1],
                     criticChain)

\* ------------------------------------------------- agents.js: responders
RateLimitChatMessage == <<"RATE_LIMIT", "_CHAT: Google chat RPM limit reached during debate turn.">>
PersonaFailurePrefix == <<"Failed to generate persona response: ">>
InvalidPayloadMessage == <<"Model returned an invalid response payload.">>

\* String.prototype.toLowerCase on the tokens that occur in error messages
Lower(tok) == IF tok = "Too Many Requests" THEN "too many requests" ELSE tok

LowerCase(s) == [i \in 1..Len(s) |-> Lower(s[i])]

isRateLimitError(error) ==
  \/ error.status = 429
  \/ Includes(LowerCase(error.message), "429")
  \/ Includes(LowerCase(error.message), "too many requests")

\* the catch block of respond(): every failure is rethrown as a new Error
RespondCatch(error) ==
  IF isRateLimitError(error) THEN Throw(RateLimitChatMessage)
  ELSE Throw(PersonaFailurePrefix \o error.message)

\* buildResponder(...).respond, given how the persona chain settled
Respond(chainOutcome) ==
  IF chainOutcome.kind = "throw" THEN RespondCatch(chainOutcome)
  ELSE IF chainOutcome.raw.t # "str" \/ chainOutcome.raw.v = <<>>
       THEN RespondCatch(Throw(InvalidPayloadMessage))
       ELSE Return(Str(Trim(chainOutcome.raw.v)))

\* --------------------------------------------------- documentCtrl.js glue
Rooms == {"s1", "s2"}
RunIds == 1..MaxRuns

ControllerDefaultRounds == 3

\* the totalRounds form field: absent, or text that does or does not start
\* with an integer
FieldAbsent == [t |-> "undef", hasInt |-> FALSE, int |-> 0, rest |-> ""]
FieldText(hasInt, int, rest) == [t |-> "text", hasInt |-> hasInt, int |-> int, rest |-> rest]

\* Number.parseInt(field, 10): the leading integer, or NaN
ParseInt(field) ==
  IF field.t = "text" /\ field.hasInt THEN [nan |-> FALSE, n |-> field.int]
  ELSE [nan |-> TRUE, n |-> 0]

\* `Number.parseInt(totalRounds, 10) || 3`
ControllerRounds(field) ==
  LET parsed == ParseInt(field)
  IN IF parsed.nan \/ parsed.n = 0 THEN ControllerDefaultRounds ELSE parsed.n

Event(type, rounds, cancelled, rateLimited) ==
  [type |-> type, rounds |-> rounds, cancelled |-> cancelled,
   rateLimited |-> rateLimited, turn |-> Turn("", <<>>)]

\* io.to(room).emit(...) by task `run`, whose room is req[run].room
Emit(log, run, event) == [log EXCEPT ![run] = Append(log[run], event)]

\* the catch block of the background task
ControllerCatch(log, run, message) ==
  LET isRateLimited == Includes(message, "RATE_LIMIT")
      isCancelled == Includes(message, "CANCELLED_DEBATE")
  IN IF isCancelled
     THEN Emit(log, run, Event("debate_complete", 0, TRUE, FALSE))
     ELSE Emit(log, run, Event("debate_error", 0, FALSE, isRateLimited))

FinallyClearAll(registry, room) == {}

FinallyKeep(registry, room) == registry

\* the finally block of the background task
FinallyClear(registry, room) == registry \ {room}

\* ------------------------------------------------------------------- state
VARIABLES
  ctl,               \* where each background task is
  req,               \* the start request each task serves
  args,              \* the arguments runDebate was called with
  debate,            \* the locals of each runDebate activation
  cancelledDebates,  \* the registry of sessions asked to stop
  events,            \* per task, the events it emitted to its room, in order
  obs,               \* bookkeeping on when stop requests arrived
  app,               \* the state of the client's App component
  wire,              \* what is under way between the client and the server
  seen               \* bookkeeping on what was delivered to the client

vars == <<ctl, req, args, debate, cancelledDebates, events, obs, app, wire, seen>>

\* App's state before the user does anything
NoApp == [transcript |-> <<>>, isLoading |-> FALSE, isDebating |-> FALSE,
          isDebatingRef |-> FALSE, pc |-> "idle"]
NoWire == [post |-> 0, ack |-> 0, socket |-> <<>>]
NoSeen == [current |-> 0, turns |-> <<>>, shown |-> <<>>, reset |-> FALSE, ended |-> FALSE]

\* no client is attached
NoClient == app = NoApp /\ wire = NoWire /\ seen = NoSeen

NoReq == [room |-> "", topic |-> Undefined, field |-> FieldAbsent, rounds |-> 0, status |-> 0]
NoArgs == [defender |-> "null", critic |-> "null", topic |-> Undefined, totalRounds |-> NoRounds]
NoObs == [atEntry |-> FALSE, stopCalls |-> -1, stopTurns |-> -1,
          stoppedActive |-> FALSE, flagAtEnd |-> FALSE]

Active(r) == ctl[r] \in {"parse", "index", "agents", "debate"}

\* ---------------------------------------------- runDebate called directly
Topics == {Str(<<"a">>), Str(<<" ", "b", " ">>), Str(<<>>), Str(<<" ">>), Undefined, NotAString}

RoundsInputs == {NoRounds, FracRounds} \cup {IntRounds(n) : n \in -1..MaxRounds}

\* what a call on an actor may come back with
RawOutputs == {Str(<<"a">>), Str(<<" ", "b", " ">>), Str(<<>>), Str(<<" ">>), Undefined, NotAString}

ErrorMessages == {<<"upstream failure">>, RateLimitChatMessage}

Outcomes == {Return(x) : x \in RawOutputs} \cup {Throw(m) : m \in ErrorMessages}

InitDebate ==
  /\ ctl = [r \in RunIds |-> IF r = 1 THEN "direct" ELSE "idle"]
  /\ req = [r \in RunIds |-> NoReq]
  /\ \E a \in [defender : ActorShapes, critic : ActorShapes,
               topic : Topics, totalRounds : RoundsInputs] :
        args = [r \in RunIds |-> IF r = 1 THEN a ELSE NoArgs]
  /\ debate = [r \in RunIds |-> NotStarted]
  /\ cancelledDebates = {}
  /\ events = [r \in RunIds |-> <<>>]
  /\ obs = [r \in RunIds |-> NoObs]
  /\ NoClient

RunDebate ==
  /\ ctl[1] = "direct"
  /\ debate[1].pc = "idle"
  /\ debate' = [debate EXCEPT ![1] =
                  Enter(args[1].defender, args[1].critic, args[1].topic, args[1].totalRounds)]
  /\ UNCHANGED <<ctl, req, args, cancelledDebates, events, obs>>

CriticReturns ==
  /\ ctl[1] = "direct"
  /\ debate[1].pc = "critic"
  /\ \E outcome \in Outcomes :
        debate' = [debate EXCEPT ![1] = CriticSettles(debate[1], args[1].defender, outcome)]
  /\ UNCHANGED <<ctl, req, args, cancelledDebates, events, obs>>

DefenderReturns ==
  /\ ctl[1] = "direct"
  /\ debate[1].pc = "defender"
  /\ \E outcome \in Outcomes :
        debate' = [debate EXCEPT ![1] = DefenderSettles(debate[1], args[1].critic, outcome)]
  /\ UNCHANGED <<ctl, req, args, cancelledDebates, events, obs>>

NextDebate ==
  \/ RunDebate /\ UNCHANGED <<app, wire, seen>>
  \/ CriticReturns /\ UNCHANGED <<app, wire, seen>>
  \/ DefenderReturns /\ UNCHANGED <<app, wire, seen>>

SpecDebate == InitDebate /\ [][NextDebate]_vars

\* ------------------------------------------------ the server, end to end
\* what the client may put in the totalRounds field
FormRounds == {FieldText(TRUE, n, "") : n \in 1..MaxFormRounds}

FormTopics == {Str(<<"a", " ">>)}

\* how the persona chain behind an agent may settle
ChainOutcomes ==
  {Return(Str(<<"a">>)),
   ThrowError(<<"quota exceeded">>, 429), ThrowError(<<"socket hang up">>, 0)}

\* how parsing, indexing and agent creation may fail
ParseFailure == <<"Failed during PDF RAG preprocessing: ", "Failed to parse PDF into text: ">>
IndexFailures ==
  {<<"RATE_LIMIT", "_EMBEDDINGS: Google embedding RPM limit reached while indexing.">>,
   <<"Failed to create vector knowledge base: ", "fetch failed">>}
AgentsFailure == <<"Failed to initialize AI agents: ", "missing api key">>

Init ==
  /\ ctl = [r \in RunIds |-> "idle"]
  /\ req = [r \in RunIds |-> NoReq]
  /\ args = [r \in RunIds |-> NoArgs]
  /\ debate = [r \in RunIds |-> NotStarted]
  /\ cancelledDebates = {}
  /\ events = [r \in RunIds |-> <<>>]
  /\ obs = [r \in RunIds |-> NoObs]
  /\ NoClient

\* the background task ends in its catch block, then its finally block
TaskFails(r, message) ==
  /\ ctl' = [ctl EXCEPT ![r] = "done"]
  /\ events' = ControllerCatch(events, r, message)
  /\ obs' = [obs EXCEPT ![r].flagAtEnd = req[r].room \in cancelledDebates]
  /\ cancelledDebates' = FinallyClear(cancelledDebates, req[r].room)

\* runDebate has resolved: debate_complete, then the finally block
TaskCompletes(r) ==
  /\ ctl' = [ctl EXCEPT ![r] = "done"]
  /\ events' = Emit(events, r, Event("debate_complete", 0, FALSE, FALSE))
  /\ obs' = [obs EXCEPT ![r].flagAtEnd = req[r].room \in cancelledDebates]
  /\ cancelledDebates' = FinallyClear(cancelledDebates, req[r].room)

\* the task goes on after a slice of runDebate that left its locals at d
AfterDebateSlice(r, d) ==
  IF d.pc = "returned" THEN TaskCompletes(r)
  ELSE UNCHANGED <<ctl, events, obs, cancelledDebates>>

AcknowledgeAfterwards(request) == request

\* res.status(202).json(...): the request is answered
Acknowledge(request) == [request EXCEPT !.status = 202]

\* POST /api/debate with a file, a topic and a socket id: 202, clear the
\* room's flag, announce the start, begin parsing
StartDebate(r, room, topic, field) ==
  /\ ctl[r] = "idle"
  /\ \A q \in RunIds : q < r => ctl[q] # "idle"
  /\ ~BlankOrInvalid(topic)
  /\ LET rounds == ControllerRounds(field)
     IN /\ req' = [req EXCEPT ![r] =
                    [Acknowledge([NoReq EXCEPT !.topic = topic, !.field = field])
                       EXCEPT !.room = room, !.rounds = rounds]]
        /\ events' = Emit(events, r, Event("debate_status", rounds, FALSE, FALSE))
  /\ cancelledDebates' = cancelledDebates \ {room}
  /\ ctl' = [ctl EXCEPT ![r] = "parse"]
  /\ UNCHANGED <<args, debate, obs>>

ParseSettles(r) ==
  /\ ctl[r] = "parse"
  /\ \/ /\ ctl' = [ctl EXCEPT ![r] = "index"]
        /\ UNCHANGED <<events, obs, cancelledDebates>>
     \/ TaskFails(r, ParseFailure)
  /\ UNCHANGED <<req, args, debate>>

IndexSettles(r) ==
  /\ ctl[r] = "index"
  /\ \/ /\ ctl' = [ctl EXCEPT ![r] = "agents"]
        /\ UNCHANGED <<events, obs, cancelledDebates>>
     \/ \E m \in IndexFailures : TaskFails(r, m)
  /\ UNCHANGED <<req, args, debate>>

\* createAgents settles; on success runDebate is called with the two
\* responders, the trimmed topic and the parsed round count
AgentsSettle(r) ==
  /\ ctl[r] = "agents"
  /\ \/ LET a == [defender |-> "respond", critic |-> "respond",
                  topic |-> Str(Trim(req[r].topic.v)),
                  totalRounds |-> IntRounds(req[r].rounds)]
            d == Enter(a.defender, a.critic, a.topic, a.totalRounds)
        IN /\ args' = [args EXCEPT ![r] = a]
           /\ debate' = [debate EXCEPT ![r] = d]
           /\ IF d.pc = "returned" THEN TaskCompletes(r)
              ELSE /\ ctl' = [ctl EXCEPT ![r] = "debate"]
                   /\ obs' = [obs EXCEPT ![r].atEntry = req[r].room \in cancelledDebates]
                   /\ UNCHANGED <<events, cancelledDebates>>
     \/ /\ TaskFails(r, AgentsFailure)
        /\ UNCHANGED <<args, debate>>
  /\ UNCHANGED req

CriticResponds(r) ==
  /\ ctl[r] = "debate"
  /\ debate[r].pc = "critic"
  /\ \E c \in ChainOutcomes :
        LET d == CriticSettles(debate[r], args[r].defender, Respond(c))
        IN /\ debate' = [debate EXCEPT ![r] = d]
           /\ AfterDebateSlice(r, d)
  /\ UNCHANGED <<req, args>>

DefenderResponds(r) ==
  /\ ctl[r] = "debate"
  /\ debate[r].pc = "defender"
  /\ \E c \in ChainOutcomes :
        LET d == DefenderSettles(debate[r], args[r].critic, Respond(c))
        IN /\ debate' = [debate EXCEPT ![r] = d]
           /\ AfterDebateSlice(r, d)
  /\ UNCHANGED <<req, args>>

RequestStopToggle(registry, room) ==
  IF room \in registry THEN registry \ {room} ELSE registry \cup {room}

\* the registry's request(sessionId): mark the session as cancelled
RequestStop(registry, room) == registry \cup {room}

\* a stop signal for a room arrives
StopDebate(room) ==
  /\ cancelledDebates' = RequestStop(cancelledDebates, room)
  /\ obs' = [r \in RunIds |->
               IF req[r].room = room /\ Active(r)
               THEN [obs[r] EXCEPT
                       !.stoppedActive = TRUE,
                       !.stopCalls = IF ctl[r] = "debate" /\ obs[r].stopCalls = -1
                                     THEN Len(debate[r].calls) ELSE @,
                       !.stopTurns = IF ctl[r] = "debate" /\ obs[r].stopTurns = -1
                                     THEN Len(debate[r].debateTranscript) ELSE @]
               ELSE obs[r]]
  /\ UNCHANGED <<ctl, req, args, debate, events>>

\* rooms are interchangeable: the first start is always for "s1"
StartRooms(r) == IF r = 1 THEN {"s1"} ELSE Rooms

Next ==
  \/ /\ \E r \in RunIds : \E room \in StartRooms(r), topic \in FormTopics, field \in FormRounds :
          StartDebate(r, room, topic, field)
     /\ UNCHANGED <<app, wire, seen>>
  \/ (\E r \in RunIds : ParseSettles(r)) /\ UNCHANGED <<app, wire, seen>>
  \/ (\E r \in RunIds : IndexSettles(r)) /\ UNCHANGED <<app, wire, seen>>
  \/ (\E r \in RunIds : AgentsSettle(r)) /\ UNCHANGED <<app, wire, seen>>
  \/ (\E r \in RunIds : CriticResponds(r)) /\ UNCHANGED <<app, wire, seen>>
  \/ (\E r \in RunIds : DefenderResponds(r)) /\ UNCHANGED <<app, wire, seen>>
  \/ (\E room \in Rooms : StopDebate(room)) /\ UNCHANGED <<app, wire, seen>>

Spec == Init /\ [][Next]_vars

\* --------------------------------- one start request, any totalRounds field
\* the totalRounds field of the form: absent, "abc", "0", "-1", "1", "2",
\* "1.5", "2abc"
FormFields ==
  {FieldAbsent, FieldText(FALSE, 0, "abc"), FieldText(TRUE, 0, ""), FieldText(TRUE, -1, ""),
   FieldText(TRUE, 1, ""), FieldText(TRUE, 2, ""), FieldText(TRUE, 1, ".5"),
   FieldText(TRUE, 2, "abc")}

StartForm == \E topic \in FormTopics, field \in FormFields : StartDebate(1, "s1", topic, field)

NextForm ==
  \/ StartForm /\ UNCHANGED <<app, wire, seen>>
  \/ ParseSettles(1) /\ UNCHANGED <<app, wire, seen>>
  \/ IndexSettles(1) /\ UNCHANGED <<app, wire, seen>>
  \/ AgentsSettle(1) /\ UNCHANGED <<app, wire, seen>>
  \/ CriticResponds(1) /\ UNCHANGED <<app, wire, seen>>
  \/ DefenderResponds(1) /\ UNCHANGED <<app, wire, seen>>

SpecForm == Init /\ [][NextForm]_vars

\* ------------------------------------------------------------ properties
\* a call on an actor succeeded: it returned a string with something in it
Succeeded(outcome) ==
  /\ outcome.kind = "return"
  /\ outcome.raw.t = "str"
  /\ \E i \in 1..Len(outcome.raw.v) : outcome.raw.v[i] # " "

SpeakerOf(i) == IF i % 2 = 1 THEN "Critic" ELSE "Defender"

\* the turn the i-th call of a run should have produced
ProducedTurn(d, i) == Turn(SpeakerOf(i), Trim(d.results[i].raw.v))

SystemTurns(transcript) == {i \in 1..Len(transcript) : transcript[i].speaker = "System"}

IsPrefix(s, t) == Len(s) <= Len(t) /\ SubSeq(t, 1, Len(s)) = s

ValidArgs(a) ==
  /\ ~BlankOrInvalid(a.topic)
  /\ ActorIsValid(a.critic)
  /\ ActorIsValid(a.defender)

\* C1: with totalRounds = n >= 1, a usable topic and two usable actors, a run
\* in which every call on an actor succeeded returns a transcript of exactly
\* 2n turns, Critic and Defender alternating from the Critic, none of them a
\* System turn, the i-th turn carrying the (trimmed) text of the i-th call.
C1_CompletedRunHasTwoTurnsPerRound ==
  \A r \in RunIds :
    LET d == debate[r]
        n == args[r].totalRounds.n
    IN ( /\ d.pc = "returned"
         /\ ValidArgs(args[r])
         /\ args[r].totalRounds.t = "int" /\ n >= 1
         /\ \A i \in 1..Len(d.results) : Succeeded(d.results[i]) )
       => /\ Len(d.debateTranscript) = 2 * n
          /\ Len(d.calls) = 2 * n
          /\ Len(d.results) = 2 * n
          /\ \A i \in 1..(2 * n) :
                /\ d.calls[i].actor = SpeakerOf(i)
                /\ d.debateTranscript[i] = ProducedTurn(d, i)

C1_Witness ==
  LET d == debate[1]
  IN /\ d.pc = "returned"
     /\ args[1].totalRounds = IntRounds(2)
     /\ Len(d.debateTranscript) = 4
     /\ SystemTurns(d.debateTranscript) = {}
     /\ d.results[2].raw = Str(<<" ", "b", " ">>)
     /\ d.debateTranscript[2] = Turn("Defender", <<"b">>)
     /\ d.debateTranscript[3] = Turn("Critic", <<"a">>)

\* C2: when the k-th call on an actor fails, the run has returned, no call
\* was made after the k-th, and the transcript is the k-1 turns produced
\* before it, in order, followed by exactly one System turn; nothing
\* happens to the run afterwards.
C2_FailedCallEndsRun ==
  \A r \in RunIds :
    LET d == debate[r]
    IN \A k \in 1..Len(d.results) :
         ~Succeeded(d.results[k])
         => /\ d.pc = "returned"
            /\ Len(d.results) = k
            /\ Len(d.calls) = k
            /\ Len(d.debateTranscript) = k
            /\ \A i \in 1..(k - 1) : d.debateTranscript[i] = ProducedTurn(d, i)
            /\ d.debateTranscript[k].speaker = "System"
            /\ (ctl[r] = "direct" => ~ENABLED (RunDebate \/ CriticReturns \/ DefenderReturns))

\* the Defender fails on round 2 of a three-round run
C2_Witness ==
  LET d == debate[1]
  IN /\ d.rounds = 3
     /\ Len(d.results) = 4
     /\ d.results[4].kind = "throw"
     /\ d.pc = "returned"
     /\ Len(d.debateTranscript) = 4
     /\ d.debateTranscript[3].speaker = "Critic"
     /\ d.debateTranscript[4].speaker = "System"

\* C3: a transcript always holds at most one System turn, which is then its
\* last element; its other elements are the turns of the calls that
\* succeeded, in the order they were produced; and a step of the run only
\* ever appends to it.
C3_TranscriptShape ==
  \A r \in RunIds :
    LET t == debate[r].debateTranscript
        d == debate[r]
    IN /\ Cardinality(SystemTurns(t)) <= 1
       /\ SystemTurns(t) \subseteq {Len(t)}
       /\ \A i \in 1..Len(t) :
            i \notin SystemTurns(t) => i <= Len(d.results) /\ t[i] = ProducedTurn(d, i)
       /\ \A i \in 1..Len(d.results) :
            Succeeded(d.results[i]) => i <= Len(t) /\ t[i] = ProducedTurn(d, i)

C3_TranscriptAppendOnly ==
  []C3_TranscriptShape
  /\ [][\A r \in RunIds :
          IsPrefix(debate[r].debateTranscript, debate'[r].debateTranscript)]_vars

C3_Witness ==
  LET t == debate[1].debateTranscript
  IN /\ Len(t) = 3
     /\ t[1].speaker = "Critic" /\ t[2].speaker = "Defender" /\ t[3].speaker = "System"
     /\ debate[1].pc = "returned"

\* ---------------------------------------------- properties of the server
IsTerminal(e) == e.type \in {"debate_complete", "debate_error"}
IsTurnEvent(e) == e.type = "debate_turn"

TerminalEvents(r) == SelectSeq(events[r], IsTerminal)

EmittedTurns(r) ==
  LET es == SelectSeq(events[r], IsTurnEvent)
  IN [i \in 1..Len(es) |-> es[i].turn]

StoppedEvent == Event("debate_complete", 0, TRUE, FALSE)

\* an actor call of the task failed, or a step before the debate did
ActorCallFailed(r) == \E i \in 1..Len(debate[r].results) : ~Succeeded(debate[r].results[i])
PreparationFailed(r) == ctl[r] = "done" /\ debate[r].pc = "idle"

\* ------------------------------------ the client, attached over one socket
\* socket.id of the client's connection, sent as socketId with every start
ClientRoom == "s1"

\* an event on its way to the client, and the task that emitted it
Sent(r, event) == [run |-> r, event |-> event]

\* the payload of debate_turn
TurnEvent(turn) == [Event("debate_turn", 0, FALSE, FALSE) EXCEPT !.turn = turn]

\* the events a step of task r emitted to its room
EmittedNow(r) ==
  LET old == Len(events[r])
  IN [i \in 1..(Len(events'[r]) - old) |-> Sent(r, events'[r][old + i])]

\* what a step of task r puts on the socket of its room; the socket takes
\* the events of a step while fewer than MaxQueued events wait on it
Relay(r) ==
  /\ Len(wire.socket) < MaxQueued
  /\ wire' = [wire EXCEPT !.socket = @ \o EmittedNow(r)]

\* the socket listeners registered by App
OnEvent(a, event) ==
  IF event.type = "debate_turn"
  THEN IF a.isDebatingRef THEN [a EXCEPT !.transcript = Append(@, event.turn)] ELSE a
  ELSE IF event.type \in {"debate_complete", "debate_stopped", "debate_error"}
       THEN [a EXCEPT !.isLoading = FALSE]
       ELSE a

\* startDebate from the click on Start Debate to `await api.post(...)`
Submit ==
  /\ ~app.isDebating /\ ~app.isLoading /\ app.pc = "idle"
  /\ \E r \in RunIds :
        /\ ctl[r] = "idle" /\ \A q \in RunIds : q < r => ctl[q] # "idle"
        /\ wire' = [wire EXCEPT !.post = r]
        /\ seen' = [NoSeen EXCEPT !.current = r]
  /\ app' = [app EXCEPT !.isLoading = TRUE, !.transcript = <<>>, !.pc = "posting"]
  /\ UNCHANGED <<ctl, req, args, debate, cancelledDebates, events, obs>>

\* the request reaches handleDebateUpload, which answers 202
Receive ==
  /\ wire.post # 0
  /\ Len(wire.socket) < MaxQueued
  /\ \E topic \in FormTopics : StartDebate(wire.post, ClientRoom, topic, FieldAbsent)
  /\ wire' = [wire EXCEPT !.post = 0, !.ack = wire.post,
                          !.socket = @ \o EmittedNow(wire.post)]
  /\ UNCHANGED <<app, seen>>

\* api.post resolves: startDebate goes on after its await
Acknowledged ==
  /\ wire.ack # 0
  /\ app' = [app EXCEPT !.isDebating = TRUE, !.isDebatingRef = TRUE, !.pc = "idle"]
  /\ wire' = [wire EXCEPT !.ack = 0]
  /\ UNCHANGED <<ctl, req, args, debate, cancelledDebates, events, obs, seen>>

\* api.post rejects, the request never having arrived: the catch block
PostFails ==
  /\ wire.post # 0
  /\ app' = [app EXCEPT !.isLoading = FALSE, !.pc = "idle"]
  /\ wire' = [wire EXCEPT !.post = 0]
  /\ seen' = [seen EXCEPT !.ended = TRUE]
  /\ UNCHANGED <<ctl, req, args, debate, cancelledDebates, events, obs>>

\* stopDebate, from the Stop control shown while isLoading
PressStop ==
  /\ app.isLoading
  /\ StopDebate(ClientRoom)
  /\ UNCHANGED <<app, wire, seen>>

\* startOver, from the Upload New Document button shown while isDebating
StartOver ==
  /\ app.isDebating
  /\ IF app.isLoading THEN StopDebate(ClientRoom)
     ELSE UNCHANGED <<ctl, req, args, debate, cancelledDebates, events, obs>>
  /\ app' = [app EXCEPT !.isDebating = FALSE, !.isDebatingRef = FALSE,
                        !.isLoading = FALSE, !.transcript = <<>>]
  /\ seen' = [seen EXCEPT !.reset = TRUE, !.shown = <<>>]
  /\ UNCHANGED wire

\* the next event on the socket reaches its listener
Deliver ==
  /\ wire.socket # <<>>
  /\ LET m == Head(wire.socket)
         tagged == [run |-> m.run, turn |-> m.event.turn]
     IN /\ app' = OnEvent(app, m.event)
        /\ seen' = [seen EXCEPT
              !.shown = IF m.event.type = "debate_turn" /\ app.isDebatingRef
                        THEN Append(@, tagged) ELSE @,
              !.turns = IF m.event.type = "debate_turn" /\ m.run = seen.current
                        THEN Append(@, tagged) ELSE @,
              !.ended = @ \/ (m.run = seen.current
                                /\ m.event.type \in {"debate_complete", "debate_error"})]
  /\ wire' = [wire EXCEPT !.socket = Tail(@)]
  /\ UNCHANGED <<ctl, req, args, debate, cancelledDebates, events, obs>>

\* onTurn: the run of task r hands over its next turn, which the task
\* emits to its room as debate_turn
TurnStreamed(r) ==
  /\ Active(r)
  /\ Len(EmittedTurns(r)) < MaxTurns
  /\ ctl' = [ctl EXCEPT ![r] = "debate"]
  /\ events' = Emit(events, r,
                    TurnEvent(Turn(SpeakerOf(Len(EmittedTurns(r)) + 1), <<"a">>)))
  /\ UNCHANGED <<req, args, debate, cancelledDebates, obs>>

\* the awaited work of task r is over: it completes, or fails in its
\* preparation
TaskEnds(r) ==
  /\ Active(r)
  /\ \/ ctl[r] = "debate" /\ TaskCompletes(r)
     \/ \E m \in {ParseFailure, AgentsFailure} \cup IndexFailures :
          ctl[r] = "parse" /\ TaskFails(r, m)
  /\ UNCHANGED <<req, args, debate>>

NextClient ==
  \/ Submit
  \/ Receive
  \/ Acknowledged
  \/ PostFails
  \/ PressStop
  \/ StartOver
  \/ Deliver
  \/ \E r \in RunIds : TurnStreamed(r) /\ Relay(r) /\ UNCHANGED <<app, seen>>
  \/ \E r \in RunIds : TaskEnds(r) /\ Relay(r) /\ UNCHANGED <<app, seen>>

SpecClient == Init /\ [][NextClient]_vars

\* C4: a run whose session is already marked cancelled when runDebate is
\* entered calls neither actor, and ends with a transcript of exactly one
\* System turn and the stopped (cancelled) status.
C4_CancelledBeforeStartMakesNoCall ==
  \A r \in RunIds :
    obs[r].atEntry
    => /\ debate[r].calls = <<>>
       /\ ctl[r] = "done"
          => /\ Len(debate[r].debateTranscript) = 1
             /\ debate[r].debateTranscript[1].speaker = "System"
             /\ TerminalEvents(r) = <<StoppedEvent>>

\* C5: a stop that arrives once the run has produced j >= 1 turns and is
\* waiting before its next call ends the run with exactly those j turns
\* followed by one System turn, stopped, and with no call begun after the
\* stop.
C5_StopWhilePacingKeepsTurnsSoFar ==
  \A r \in RunIds :
    obs[r].stopTurns >= 1
    => /\ Len(debate[r].calls) = obs[r].stopCalls
       /\ ctl[r] = "done"
          => /\ Len(debate[r].debateTranscript) = obs[r].stopTurns + 1
             /\ SystemTurns(debate[r].debateTranscript) = {obs[r].stopTurns + 1}
             /\ TerminalEvents(r) = <<StoppedEvent>>

\* C6: a stop that arrives while a call on an actor is in flight lets that
\* call finish and have its turn appended, and no call on an actor begins
\* after the stop.
C6_NoCallBeginsAfterStop ==
  \A r \in RunIds :
    obs[r].stopCalls >= 1
    => /\ Len(debate[r].calls) = obs[r].stopCalls
       /\ ctl[r] = "done" => Len(debate[r].results) = obs[r].stopCalls
       /\ \A i \in 1..Len(debate[r].results) :
            Succeeded(debate[r].results[i])
            => i <= Len(debate[r].debateTranscript)
               /\ debate[r].debateTranscript[i] = ProducedTurn(debate[r], i)

\* C7: the turns emitted to the observer are, at every moment, exactly the
\* turns of the transcript, in the same order.
C7_EveryTurnIsEmitted ==
  \A r \in RunIds :
    ctl[r] # "direct" => EmittedTurns(r) = debate[r].debateTranscript

\* C8: a run during which a stop signal arrived for its session, and none of
\* whose steps failed, ends with the stopped (cancelled) status.
C8_StopEndsRunCancelled ==
  \A r \in RunIds :
    ( /\ obs[r].stoppedActive
      /\ ctl[r] = "done"
      /\ ~PreparationFailed(r)
      /\ ~ActorCallFailed(r) )
    => TerminalEvents(r) = <<StoppedEvent>>

\* C9: the step in which a background task ends, whatever its outcome,
\* leaves no cancellation entry for the task's session.
C9_FlagClearedWhenRunEnds ==
  [][\A r \in RunIds :
       (ctl[r] # "done" /\ ctl'[r] = "done") => req[r].room \notin cancelledDebates']_vars

\* a task ended by a failure before the debate, and one ended after its
\* debate, each while its session was marked cancelled
C9_Witness ==
  \E r, q \in RunIds :
    /\ ctl[r] = "done" /\ obs[r].flagAtEnd /\ PreparationFailed(r)
    /\ ctl[q] = "done" /\ obs[q].flagAtEnd /\ debate[q].pc = "returned"
    /\ req[r].room \notin cancelledDebates
    /\ req[q].room \notin cancelledDebates

\* C10: a task that has ended has emitted exactly one terminal status
\* event, one that has not ended has emitted none, and the event says
\* completed exactly when all rounds were run and error when a call on an
\* actor or a step before the debate failed.
C10_OneTerminalEventMatchingOutcome ==
  \A r \in RunIds :
    /\ ctl[r] # "done" => TerminalEvents(r) = <<>>
    /\ ctl[r] = "done"
       => /\ Len(TerminalEvents(r)) = 1
          /\ LET e == TerminalEvents(r)[1]
                 t == debate[r].debateTranscript
                 allRounds == /\ debate[r].pc = "returned"
                              /\ Len(t) = 2 * debate[r].rounds
                              /\ SystemTurns(t) = {}
             IN /\ (e.type = "debate_complete" /\ ~e.cancelled) <=> allRounds
                /\ (ActorCallFailed(r) \/ PreparationFailed(r)) => e.type = "debate_error"

\* C11: when a call on an actor fails, the System turn tells a rate-limit
\* failure from any other, and the task surfaces the failure to the
\* observer as an error carrying the same classification.
C11_FailureKindReachesCaller ==
  \A r \in RunIds :
    (ctl[r] = "done" /\ ActorCallFailed(r))
    => LET d == debate[r]
           failure == d.results[Len(d.results)]
           rateLimited == Includes(failure.message, "RATE_LIMIT")
           system == d.debateTranscript[Len(d.debateTranscript)]
       IN /\ system.speaker = "System"
          /\ Includes(system.text, "RATE_LIMIT") <=> rateLimited
          /\ TerminalEvents(r) = <<Event("debate_error", 0, FALSE, rateLimited)>>

\* C12: a task that has begun any work (parsing, indexing, agent creation,
\* a call on an actor) serves a request that was already answered 202, and
\* that answer is never changed by what the task does afterwards.
C12_Acknowledged ==
  \A r \in RunIds : ctl[r] \in {"parse", "index", "agents", "debate", "done"} => req[r].status = 202

UsableTopic(topic) == topic.t = "str" /\ \E i \in 1..Len(topic.v) : topic.v[i] # " "

\* C13: a run entered with a missing, non-string, empty or blank topic has
\* returned at once with the InvalidTopic System turn as its whole transcript
\* and has made no call on either actor.
C13_InvalidTopicMakesNoCall ==
  \A r \in RunIds :
    (debate[r].pc # "idle" /\ ~UsableTopic(args[r].topic))
    => /\ debate[r].pc = "returned"
       /\ debate[r].calls = <<>>
       /\ debate[r].results = <<>>
       /\ debate[r].debateTranscript = <<Turn("System", StoppedEarlyPrefix \o InvalidTopicMessage)>>

\* a run entered with a blank topic and two valid actors
C13_Witness ==
  \E r \in RunIds :
    /\ debate[r].pc = "returned"
    /\ args[r].topic = Str(<<" ">>)
    /\ ActorIsValid(args[r].critic) /\ ActorIsValid(args[r].defender)
    /\ debate[r].calls = <<>>

\* C14: a run entered with a usable topic and a Critic or Defender that has
\* neither respond nor invoke has returned with the InvalidActor System turn
\* as its whole transcript, no call having been made on either actor.
C14_InvalidActorMakesNoCall ==
  \A r \in RunIds :
    (/\ debate[r].pc # "idle"
     /\ UsableTopic(args[r].topic)
     /\ ~(ActorIsValid(args[r].critic) /\ ActorIsValid(args[r].defender)))
    => /\ debate[r].pc = "returned"
       /\ debate[r].calls = <<>>
       /\ debate[r].debateTranscript = <<Turn("System", StoppedEarlyPrefix \o InvalidActorMessage)>>

\* the positive integer a totalRounds field spells out, if it does
IsPositiveInteger(field) ==
  field.t = "text" /\ field.hasInt /\ field.rest = "" /\ field.int > 0

\* C15: a run started with a totalRounds field that spells a positive integer
\* n executes n rounds, and with any other field (absent, zero, negative,
\* not an integer) executes 3 rounds; no start is refused for its field.
C15_RoundsFromField ==
  /\ \A topic \in FormTopics, field \in FormFields :
       ctl[1] = "idle" => ENABLED StartDebate(1, "s1", topic, field)
  /\ \A r \in RunIds :
       debate[r].pc # "idle"
       => debate[r].rounds = IF IsPositiveInteger(req[r].field) THEN req[r].field.int ELSE 3

\* C16: the instruction of the Defender's call in round k carries the text of
\* the Critic's round-k turn, the instruction of the Critic's call in a round
\* k > 1 carries the text of the Defender's round-(k-1) turn, and the
\* instruction of the Critic's first call carries the trimmed initial topic.
C16_RoundContentDependency ==
  \A r \in RunIds :
    LET d == debate[r]
    IN \A i \in 1..Len(d.calls) :
         LET instruction == d.calls[i].topic
         IN /\ d.calls[i].actor = SpeakerOf(i)
            /\ instruction.round = (i + 1) \div 2
            /\ IF i = 1
               THEN instruction.body = Trim(args[r].topic.v)
               ELSE /\ d.debateTranscript[i - 1].speaker = SpeakerOf(i - 1)
                    /\ instruction.body = d.debateTranscript[i - 1].text

\* a run of two rounds that completed, entered with topic " b ", in which
\* the Critic said "a" and the Defender " b " in round 1
C16_Witness ==
  \E r \in RunIds :
    LET d == debate[r]
    IN /\ d.pc = "returned" /\ Len(d.calls) = 4 /\ Len(d.debateTranscript) = 4
       /\ args[r].topic = Str(<<" ", "b", " ">>)
       /\ d.calls[1].topic.body = <<"b">>
       /\ d.results[1] = Return(Str(<<"a">>))
       /\ d.calls[2].topic.body = <<"a">>
       /\ d.results[2] = Return(Str(<<" ", "b", " ">>))
       /\ d.calls[3].topic.body = <<"b">>
       /\ d.calls[3].topic.round = 2
       /\ d.debateTranscript[4].speaker = "Defender"

\* a value an actor returned that invokeActor cannot use: not a string, or
\* a string with no non-blank character
Unusable(raw) == raw.t # "str" \/ \A i \in 1..Len(raw.v) : raw.v[i] = " "

\* C17: every Critic or Defender turn has a non-empty text with no blank at
\* either end, and a call whose actor returned null/undefined, a non-string
\* or an empty or blank string appended no turn of that actor: the run ended
\* there with the EmptyResponse System turn.
C17_TurnsAreNonEmptyTrimmed ==
  \A r \in RunIds :
    LET d == debate[r]
    IN /\ \A i \in 1..Len(d.debateTranscript) :
            d.debateTranscript[i].speaker # "System"
            => LET text == d.debateTranscript[i].text
               IN text # <<>> /\ text[1] # " " /\ text[Len(text)] # " "
       /\ \A i \in 1..Len(d.results) :
            (d.results[i].kind = "return" /\ Unusable(d.results[i].raw))
            => /\ d.pc = "returned"
               /\ Len(d.results) = i
               /\ Len(d.debateTranscript) = i
               /\ d.debateTranscript[i] = Turn("System", StoppedEarlyPrefix \o EmptyResponseMessage)

\* the Critic returned " b " and its turn reads "b"; the Defender then
\* returned a blank string
C17_Witness ==
  \E r \in RunIds :
    LET d == debate[r]
    IN /\ Len(d.results) = 2
       /\ d.results[1] = Return(Str(<<" ", "b", " ">>))
       /\ d.debateTranscript[1] = Turn("Critic", <<"b">>)
       /\ d.results[2] = Return(Str(<<" ">>))
       /\ d.debateTranscript[2].speaker = "System"

\* the calls of a run made on one actor
CallsOn(d, actor) == {i \in 1..Len(d.calls) : d.calls[i].actor = actor}

\* the number of rounds a run entered with these arguments is to execute
RoundsOf(a) ==
  IF a.totalRounds.t = "int" /\ a.totalRounds.n > 0 THEN a.totalRounds.n ELSE 3

\* C18: every call on an actor has at most one result and at most one call
\* is outstanding; a call that failed is the last call of its run; a run of
\* n rounds makes at most 2n calls, at most n on each actor.
C18_NoRetry ==
  \A r \in RunIds :
    LET d == debate[r]
        n == RoundsOf(args[r])
    IN /\ Len(d.results) <= Len(d.calls)
       /\ Len(d.calls) <= Len(d.results) + 1
       /\ \A i \in 1..Len(d.results) : ~Succeeded(d.results[i]) => Len(d.calls) = i
       /\ Len(d.calls) <= 2 * n
       /\ Cardinality(CallsOn(d, "Critic")) <= n
       /\ Cardinality(CallsOn(d, "Defender")) <= n
       /\ CallsOn(d, "Critic") \cup CallsOn(d, "Defender") = 1..Len(d.calls)

\* a run of two rounds whose third call, on the Critic, threw: it ended
\* with three calls made
C18_Witness ==
  \E r \in RunIds :
    LET d == debate[r]
    IN /\ d.pc = "returned"
       /\ RoundsOf(args[r]) = 2
       /\ Len(d.calls) = 3 /\ Len(d.results) = 3
       /\ d.results[3].kind = "throw"
       /\ Cardinality(CallsOn(d, "Critic")) = 2

C20_OneActiveRunPerSession ==
  \A r, q \in RunIds :
    (r # q /\ ctl[r] = "debate" /\ ctl[q] = "debate") => req[r].room # req[q].room

\* C21: the step in which a call on an actor settles never also begins the
\* next call of the run: between the two the run rests in a pacing wait.
C21_PacingBetweenCalls ==
  [][\A r \in RunIds :
       Len(debate'[r].results) > Len(debate[r].results)
       => Len(debate'[r].calls) = Len(debate[r].calls)]_vars

\* C22: a run has at most one call on an actor in flight; its calls go
\* Critic(1), Defender(1), Critic(2), Defender(2), ...; and each call after
\* the first was begun with the turn of the call before it already appended:
\* the context it was given is the transcript of all the turns before it.
C22_CallsStrictlyOrdered ==
  \A r \in RunIds :
    LET d == debate[r]
    IN /\ Len(d.calls) - Len(d.results) \in {0, 1}
       /\ (d.pc \in {"critic", "defender"}) <=> (Len(d.calls) = Len(d.results) + 1)
       /\ \A i \in 1..Len(d.calls) :
            /\ d.calls[i].actor = SpeakerOf(i)
            /\ d.calls[i].topic.round = (i + 1) \div 2
            /\ Len(d.debateTranscript) >= i - 1
            /\ \A j \in 1..(i - 1) : d.debateTranscript[j].speaker = SpeakerOf(j)
            /\ d.calls[i].priorContext = PriorContext(SubSeq(d.debateTranscript, 1, i - 1))

\* the Defender's call of round 2 is in flight, three turns appended
C22_Witness ==
  \E r \in RunIds :
    LET d == debate[r]
    IN /\ d.pc = "defender"
       /\ Len(d.calls) = 4 /\ Len(d.results) = 3 /\ Len(d.debateTranscript) = 3
       /\ d.calls[4].topic.round = 2
       /\ d.debateTranscript[3].speaker = "Critic"

\* what a task holds of its own
Local(r) == <<ctl[r], req[r], args[r], debate[r], events[r]>>
LocalNext(r) == <<ctl'[r], req'[r], args'[r], debate'[r], events'[r]>>

\* a step is taken for session A: a task serving A moves (starts, goes on
\* or ends), or A's entry in the registry changes, or a stop for A arrives
StepFor(A) ==
  \/ \E r \in RunIds : req'[r].room = A /\ LocalNext(r) # Local(r)
  \/ (A \in cancelledDebates') # (A \in cancelledDebates)
  \/ StopDebate(A)

\* C23: a step taken for a session A (a start, a stop, a task going on or
\* ending) leaves the registry entry of every other session B as it was,
\* and leaves every task serving B where it was, with its transcript, its
\* calls and its events.
C23_SessionsIndependent ==
  [][\A A, B \in Rooms :
       (A # B /\ StepFor(A))
       => /\ (B \in cancelledDebates') = (B \in cancelledDebates)
          /\ \A q \in RunIds : req[q].room = B => LocalNext(q) = Local(q)]_vars

\* a task serving one session has ended while a task serving another, for
\* which a stop was requested, is still calling its actors with its flag set
C23_Witness ==
  \E r, q \in RunIds :
    /\ req[r].room # req[q].room
    /\ ctl[r] = "done"
    /\ ctl[q] = "debate" /\ obs[q].stoppedActive
    /\ req[q].room \in cancelledDebates

\* the class the observer is told: what the task's terminal event says
ObservedClass(event) ==
  IF event.type = "debate_complete" /\ event.cancelled THEN "Cancelled"
  ELSE IF event.type = "debate_error" /\ event.rateLimited THEN "RateLimited"
  ELSE IF event.type = "debate_error" THEN "Generic"
  ELSE "None"

\* C24: a failure of the persona chain is marked RATE_LIMIT by the responder
\* exactly when it carries status 429 or a message with "429" or "too many
\* requests", and a task whose run ended on a call that failed with that
\* mark tells the observer RateLimited, on any other failed call Generic.
C24_ClassifiedFailureReachesObserver ==
  /\ \A c \in ChainOutcomes :
       c.kind = "throw"
       => (Includes(Respond(c).message, "RATE_LIMIT")
           <=> (c.status = 429 \/ Includes(LowerCase(c.message), "429")
                  \/ Includes(LowerCase(c.message), "too many requests")))
  /\ \A r \in RunIds :
       (ctl[r] = "done" /\ ActorCallFailed(r))
       => /\ Len(TerminalEvents(r)) = 1
          /\ ObservedClass(TerminalEvents(r)[1]) =
               IF Includes(debate[r].results[Len(debate[r].results)].message, "RATE_LIMIT")
               THEN "RateLimited" ELSE "Generic"

\* something went wrong in a run: its topic was unusable, a call failed, or
\* it came to call an actor that has neither respond nor invoke
FailureOccurred(r) ==
  LET d == debate[r]
  IN \/ ~UsableTopic(args[r].topic)
     \/ ActorCallFailed(r)
     \/ /\ Len(d.calls) = Len(d.results)
        /\ Len(d.calls) < 2 * d.rounds
        /\ ~ActorIsValid(IF Len(d.calls) % 2 = 0 THEN args[r].critic ELSE args[r].defender)

\* C25: whatever the topic, the round count and the actors, a run that was
\* entered is waiting for a call or has returned its transcript; while it
\* waits, any outcome of the call is taken; and once something went wrong
\* it has returned with exactly one System turn, the last of the transcript.
C25_RunDebateNeverRejects ==
  \A r \in RunIds :
    LET d == debate[r]
        n == Len(d.debateTranscript)
    IN /\ d.pc \in {"idle", "critic", "defender", "returned"}
       /\ (ctl[r] = "direct" /\ d.pc = "idle") => ENABLED RunDebate
       /\ (ctl[r] = "direct" /\ d.pc = "critic") => ENABLED CriticReturns
       /\ (ctl[r] = "direct" /\ d.pc = "defender") => ENABLED DefenderReturns
       /\ (d.pc # "idle" /\ FailureOccurred(r))
          => /\ d.pc = "returned"
             /\ n >= 1
             /\ d.debateTranscript[n].speaker = "System"
             /\ \A i \in 1..(n - 1) : d.debateTranscript[i].speaker # "System"
       /\ (d.pc = "returned" /\ ~FailureOccurred(r))
          => \A i \in 1..n : d.debateTranscript[i].speaker # "System"

\* a run whose Defender has neither respond nor invoke returned the
\* Critic's turn and a System turn
C25_Witness ==
  \E r \in RunIds :
    LET d == debate[r]
    IN /\ d.pc = "returned"
       /\ args[r].defender = "neither"
       /\ Len(d.debateTranscript) = 2
       /\ d.debateTranscript[1].speaker = "Critic"
       /\ d.debateTranscript[2] = Turn("System", StoppedEarlyPrefix \o InvalidActorMessage)

\* C26: once a stop has arrived for the session of a task that is running,
\* the session stays in the registry for as long as that task is running,
\* whatever other start or other task's end comes for the same session.
C26_FlagKeptWhileRunActive ==
  [][\A r \in RunIds :
       (/\ Active(r) /\ obs[r].stoppedActive
        /\ req[r].room \in cancelledDebates
        /\ ctl'[r] = ctl[r])
       => req[r].room \in cancelledDebates']_vars

\* C27: the round count of the debate_status event a task emitted at its
\* start is the number of rounds its run executes.
C27_AnnouncedRoundsAreExecuted ==
  \A r \in RunIds :
    debate[r].pc # "idle"
    => /\ events[r] # <<>>
       /\ events[r][1].type = "debate_status"
       /\ events[r][1].rounds = debate[r].rounds

\* a displayed turn that the run of the latest start produced
FromCurrentRun(shown) == shown.run = seen.current

C30_LoadingTracksCurrentRun ==
  (seen.current # 0 /\ ~seen.reset /\ ~seen.ended) => app.isLoading

====
